---- MODULE Spec2Model ----
(***************************************************************************)
(* gomath, package numbers: the tower N -> Z -> Q.                         *)
(*                                                                         *)
(* Values live in machine words: N.value is unsigned, Z.value and Q.a/Q.b  *)
(* are signed, both of WordBits bits (64 in the Go build; the model keeps  *)
(* the wrap-around arithmetic and scales the width down).                  *)
(*                                                                         *)
(* A pointer is a record [ref, value]: ref says which object it points to, *)
(*   "nil"  - the nil pointer                                              *)
(*   "ZERO" - the package variable ZERO (shared by every operation)        *)
(*   "n"    - the receiver operand, "arg" - the argument operand           *)
(*   "new"  - an object allocated during the operation                     *)
(* and value is the word read through it.                                  *)
(***************************************************************************)
EXTENDS Integers, Sequences, FiniteSets, TLC

\* ---- bounds of the model ----
WordBits == 6            \* width of uint64 / int64, scaled down
MaxN == 8                \* operands are drawn from 0..MaxN and -MaxN..MaxN
MaxWide == 14            \* the MaxWide largest words are drawn as targets
MaxProbe == 2            \* of a search whose other operand is at most MaxProbe
MaxMin == 3              \* next to the most negative word, -MaxMin..MaxMin

Mod == 2 ^ WordBits
Half == 2 ^ (WordBits - 1)

\* uint64(x): the word as an unsigned magnitude
ToU(x) == x % Mod
\* int64(x): the word as a two's complement signed magnitude
ToI(x) == IF x % Mod >= Half THEN (x % Mod) - Mod ELSE x % Mod
\* -x on int64
Neg(x) == ToI(0 - x)

\* ZERO: ZERO.value, the one object every operation shares
\* op:   the operation that was called last ("idle" between calls)
\* x, y: its operands (numerator and denominator for an operation on a Q)
\* src:  where its receiver came from: "caller", or the operation whose
\*       result it is
\* ret:  what it returned
VARIABLES ZERO, op, x, y, src, ret
vars == <<ZERO, op, x, y, src, ret>>

\* ---- objects ----
NilN == [ref |-> "nil", value |-> 0]
NilZ == [ref |-> "nil", value |-> 0]
NilQ == [ref |-> "nil", a |-> 0, b |-> 0]
NoError == ""

\* &ZERO, read while ZERO.value = zv
ZeroRef(zv) == [ref |-> "ZERO", value |-> zv]
\* &N{value: v}
NewObj(v) == [ref |-> "new", value |-> ToU(v)]
\* &Z{value: v}
NewZObj(v) == [ref |-> "new", value |-> ToI(v)]
\* &Q{a: a, b: b}
NewQObj(a, b) == [ref |-> "new", a |-> ToI(a), b |-> ToI(b)]

\* what an operation hands back: the returned pointers, the error, how the
\* call ended ("return", "hang" for a loop that never exits, "stackoverflow"
\* for a recursion that never bottoms out, "panic"), ZERO.value afterwards,
\* and wrote: the refs of the objects it assigned to after their construction
Result(out, n, z, q, rem, err, zv) ==
  [out |-> out, n |-> n, z |-> z, q |-> q, rem |-> rem, err |-> err,
   str |-> <<>>, zero |-> zv, wrote |-> {}]

\* r, the objects behind refs having been assigned to on the way
Wrote(r, refs) == [r EXCEPT !.wrote = @ \cup refs]

\* the one element of a singleton.  Only({F(v) : v \in {e}}) is F(e) with e
\* evaluated once, however often F reads it
Only(S) == CHOOSE v \in S : TRUE

\* ---- N ----

\* n holds a uint64.  The loops below carry it as a conjunct of their
\* condition so that the running value is evaluated at every round rather
\* than stacked up as a chain of pending increments
IsN(n) == n.value \in 0 .. Mod - 1

\* N.addOne
addOne(n) == NewObj(n.value + 1)

RECURSIVE NewNLoop(_, _, _)
NewNLoop(res, i, value) ==
  IF i < value /\ IsN(res) THEN NewNLoop(addOne(res), i + 1, value) ELSE res
\* NewN(v), v the number strconv.Atoi reads from the literal
NewN(zv, value) == NewNLoop(ZeroRef(zv), 0, value)

RECURSIVE N_AddLoop(_, _, _)
N_AddLoop(res, i, arg) ==
  IF i < arg.value /\ IsN(res) THEN N_AddLoop(addOne(res), i + 1, arg) ELSE res
\* N.Add
N_Add(n, arg) == N_AddLoop(n, 0, arg)

RECURSIVE N_MultiplyLoop(_, _, _, _)
N_MultiplyLoop(res, i, n, arg) ==
  IF i < arg.value /\ IsN(res)
  THEN N_MultiplyLoop(N_Add(res, n), i + 1, n, arg)
  ELSE res
\* N.Multiply
N_Multiply(zv, n, arg) == N_MultiplyLoop(ZeroRef(zv), 0, n, arg)

RECURSIVE N_PowerLoop(_, _, _, _, _)
N_PowerLoop(zv, res, i, n, arg) ==
  IF i < arg.value /\ IsN(res)
  THEN N_PowerLoop(zv, N_Multiply(zv, res, n), i + 1, n, arg)
  ELSE res
N_Power_FromZero(zv, n, arg) == N_PowerLoop(zv, NewN(zv, 0), 0, n, arg)

\* N.Power
N_Power(zv, n, arg) == N_PowerLoop(zv, NewN(zv, 1), 0, n, arg)

RECURSIVE N_SubtractLoop(_, _, _, _)
RECURSIVE DefZ(_, _, _)
RECURSIVE DefZLoop(_, _)

\* N.Subtract
N_Subtract(zv, n, arg) ==
  IF n.value < arg.value
  THEN Result("return", NilN, DefZ(zv, n, arg), NilQ, NilN, NoError, zv)
  ELSE N_SubtractLoop(zv, ZeroRef(zv), n, arg)

N_SubtractLoop(zv, res, n, arg) ==
  IF N_Add(arg, res).value = n.value
  THEN Result("return", res, NilZ, NilQ, NilN, NoError, zv)
  ELSE N_SubtractLoop(zv, addOne(res), n, arg)

DefZLoop(c, res) ==
  IF c.value < res.value THEN DefZLoop(addOne(c), res) ELSE c

DefZ_NoMinus(zv, a, b) ==
  IF a.value >= b.value
  THEN NewZObj(ToI(N_Subtract(zv, a, b).n.value))
  ELSE LET res == N_Subtract(zv, b, a).n
           c == DefZLoop(NewObj(zv), res)
       IN  NewZObj(ToI(c.value))

\* DefZ
DefZ(zv, a, b) ==
  IF a.value >= b.value
  THEN NewZObj(ToI(N_Subtract(zv, a, b).n.value))
  ELSE LET res == N_Subtract(zv, b, a).n
           c == DefZLoop(NewObj(zv), res)
       IN  NewZObj(Neg(ToI(c.value)))

DefQ_Swapped(a, b) == NewQObj(b.value, a.value)

\* DefQ
DefQ(a, b) == NewQObj(a.value, b.value)

RECURSIVE N_DivideLoop(_, _, _, _, _)
\* the scan of N.Divide; after Mod rounds res.value is back where it
\* started, so the loop never exits
N_DivideLoop(zv, res, n, arg, rounds) ==
  IF rounds = Mod THEN Result("hang", NilN, NilZ, NilQ, NilN, NoError, zv)
  ELSE IF N_Multiply(zv, arg, res).value = n.value
  THEN Result("return", res, NilZ, NilQ, NilN, NoError, zv)
  ELSE IF N_Multiply(zv, arg, res).value > n.value
  THEN Result("return", NilN, NilZ,
              DefQ(NewZObj(ToI(n.value)), NewZObj(ToI(arg.value))),
              NilN, NoError, zv)
  ELSE N_DivideLoop(zv, addOne(res), n, arg, rounds + 1)

N_Divide_Unguarded(zv, n, arg) == N_DivideLoop(zv, ZeroRef(zv), n, arg, 0)

\* N.Divide
N_Divide(zv, n, arg) ==
  IF arg.value = 0
  THEN Result("return", NilN, NilZ, NilQ, NilN, "can't divide by ZERO", zv)
  ELSE N_DivideLoop(zv, ZeroRef(zv), n, arg, 0)

N_DivideRTail_OffByOne(zv, res, n, arg) ==
  LET res1 == N_Subtract(zv, res, NewN(zv, 1)).n
      rem == N_Subtract(zv, n, N_Multiply(zv, res1, arg)).n
  IN  Result("return", res, NilZ, NilQ, rem, NoError, zv)

\* the tail of N.DivideR, after the scan broke out at res
N_DivideRTail(zv, res, n, arg) ==
  LET res1 == N_Subtract(zv, res, NewN(zv, 1)).n
      rem == IF res1.ref = "nil" THEN NilN
             ELSE N_Subtract(zv, n, N_Multiply(zv, res1, arg)).n
  IN  IF res1.ref = "nil"
      THEN Result("panic", NilN, NilZ, NilQ, NilN, NoError, zv)
      ELSE Result("return", res1, NilZ, NilQ, rem, NoError, zv)

RECURSIVE N_DivideRLoop(_, _, _, _, _)
N_DivideRLoop(zv, res, n, arg, rounds) ==
  IF rounds = Mod THEN Result("hang", NilN, NilZ, NilQ, NilN, NoError, zv)
  ELSE IF N_Multiply(zv, arg, res).value = n.value
  THEN Result("return", res, NilZ, NilQ, ZeroRef(zv), NoError, zv)
  ELSE IF N_Multiply(zv, arg, res).value > n.value
  THEN N_DivideRTail(zv, res, n, arg)
  ELSE N_DivideRLoop(zv, addOne(res), n, arg, rounds + 1)

\* N.DivideR
N_DivideR(zv, n, arg) ==
  IF arg.value = 0
  THEN Result("return", NilN, NilZ, NilQ, NilN, "can't divide by ZERO", zv)
  ELSE N_DivideRLoop(zv, ZeroRef(zv), n, arg, 0)

\* errors.New("no solution in \u2115"), the double-struck N written as N
NoSolution == "no solution in N"

N_RootProbe_OneAhead(zv, res, n) == N_Power(zv, addOne(res), n)

\* res.Power(n), the probe of N.Root
N_RootProbe(zv, res, n) == N_Power(zv, res, n)

RECURSIVE N_RootLoop(_, _, _, _, _)
\* the scan of N.Root; after Mod rounds res.value is back where it started,
\* so the loop never exits
N_RootLoop(zv, res, n, arg, rounds) ==
  IF rounds = Mod THEN Result("hang", NilN, NilZ, NilQ, NilN, NoError, zv)
  ELSE IF N_RootProbe(zv, res, n).value = arg.value
  THEN Result("return", res, NilZ, NilQ, NilN, NoError, zv)
  ELSE IF N_RootProbe(zv, res, n).value > arg.value
  THEN Result("return", NilN, NilZ, NilQ, NilN, NoSolution, zv)
  ELSE N_RootLoop(zv, addOne(res), n, arg, rounds + 1)

N_Root_AnyDegree(zv, n, arg) == N_RootLoop(zv, NewN(zv, 0), n, arg, 0)

\* N.Root: n is the degree, arg the number the root is taken of
N_Root(zv, n, arg) ==
  IF n.value = 0
  THEN Result("return", NilN, NilZ, NilQ, NilN, "can't take ZEROth root", zv)
  ELSE N_RootLoop(zv, NewN(zv, 0), n, arg, 0)

RECURSIVE N_LogarithmLoop(_, _, _, _, _)
\* the scan of N.Logarithm; after Mod rounds res.value is back where it
\* started, so the loop never exits
N_LogarithmLoop(zv, res, n, arg, rounds) ==
  IF rounds = Mod THEN Result("hang", NilN, NilZ, NilQ, NilN, NoError, zv)
  ELSE IF N_Power(zv, n, res).value = arg.value
  THEN Result("return", res, NilZ, NilQ, NilN, NoError, zv)
  ELSE IF N_Power(zv, n, res).value > arg.value
  THEN Result("return", NilN, NilZ, NilQ, NilN, NoSolution, zv)
  ELSE N_LogarithmLoop(zv, addOne(res), n, arg, rounds + 1)

N_Logarithm_BaseFirst(zv, n, arg) ==
  IF n.value = 0
  THEN Result("return", NilN, NilZ, NilQ, NilN,
              "can't take logarithm with base ZERO", zv)
  ELSE IF n.value = 1
  THEN Result("return", NilN, NilZ, NilQ, NilN,
              "can't take logarithm with base ONE", zv)
  ELSE IF arg.value = 0
  THEN Result("return", NilN, NilZ, NilQ, NilN,
              "can't take logarithm from ZERO", zv)
  ELSE N_LogarithmLoop(zv, NewN(zv, 0), n, arg, 0)

\* N.Logarithm: n is the base, arg the number the logarithm is taken of
N_Logarithm(zv, n, arg) ==
  IF arg.value = 0
  THEN Result("return", NilN, NilZ, NilQ, NilN,
              "can't take logarithm from ZERO", zv)
  ELSE IF n.value = 0
  THEN Result("return", NilN, NilZ, NilQ, NilN,
              "can't take logarithm with base ZERO", zv)
  ELSE IF n.value = 1
  THEN Result("return", NilN, NilZ, NilQ, NilN,
              "can't take logarithm with base ONE", zv)
  ELSE N_LogarithmLoop(zv, NewN(zv, 0), n, arg, 0)

\* ---- Z ----

Failure(out, zv) == Result(out, NilN, NilZ, NilQ, NilN, NoError, zv)

NegateZ_Forgotten(zres) == zres

\* zres.value = -zres.value
NegateZ(zres) == [zres EXCEPT !.value = Neg(@)]
NegateQ_Denominator(qres) == [qres EXCEPT !.b = Neg(@)]

\* qres.a = -qres.a
NegateQ(qres) == [qres EXCEPT !.a = Neg(@)]

\* the three returns that close every branch of Z.Divide, neg telling
\* whether the branch flips the sign of what the inner call returned
Z_DivideReturn(d, neg) ==
  IF d.out # "return" THEN d
  ELSE IF d.z.ref # "nil"
  THEN Wrote(Result("return", NilN,
                    IF neg THEN NegateZ(d.z) ELSE d.z,
                    NilQ, NilN, NoError, d.zero),
             d.wrote \cup (IF neg THEN {d.z.ref} ELSE {}))
  ELSE IF d.q.ref # "nil"
  THEN Wrote(Result("return", NilN, NilZ,
                    IF neg THEN NegateQ(d.q) ELSE d.q,
                    NilN, NoError, d.zero),
             d.wrote \cup (IF neg THEN {d.q.ref} ELSE {}))
  ELSE Wrote(Result("return", NilN, NilZ, NilQ, NilN, d.err, d.zero), d.wrote)

RECURSIVE Z_Divide(_, _, _)
\* Z.Divide; a branch whose inner call has the operands of the call itself
\* recurses until the stack is exhausted
Z_Divide(zv, z, arg) ==
  IF z.value >= 0 /\ arg.value >= 0
  THEN LET a == NewObj(ToU(z.value))
           b == NewObj(ToU(arg.value))
           d == N_Divide(zv, a, b)
       IN  IF d.out # "return" THEN d
           ELSE IF d.n.ref # "nil"
           THEN Result("return", NilN, NewZObj(ToI(d.n.value)), NilQ, NilN,
                       NoError, zv)
           ELSE IF d.q.ref # "nil"
           THEN Result("return", NilN, NilZ, d.q, NilN, NoError, zv)
           ELSE Result("return", NilN, NilZ, NilQ, NilN, d.err, zv)
  ELSE IF z.value >= 0 /\ arg.value < 0
  THEN IF Neg(arg.value) = arg.value THEN Failure("stackoverflow", zv)
       ELSE Z_DivideReturn(Z_Divide(zv, z, NewZObj(Neg(arg.value))), TRUE)
  ELSE IF z.value < 0 /\ arg.value >= 0
  THEN IF Neg(z.value) = z.value THEN Failure("stackoverflow", zv)
       ELSE Z_DivideReturn(Z_Divide(zv, NewZObj(Neg(z.value)), arg), TRUE)
  ELSE IF Neg(z.value) = z.value /\ Neg(arg.value) = arg.value
       THEN Failure("stackoverflow", zv)
       ELSE Z_DivideReturn(
              Z_Divide(zv, NewZObj(Neg(z.value)), NewZObj(Neg(arg.value))),
              FALSE)

\* negres of Z.DivideR: the quotient is to be negated
negres(a, b) == (a < 0 /\ b >= 0) \/ (a >= 0 /\ b < 0)

negrem_OfDivisor(a, b) == b < 0

\* negrem of Z.DivideR: the remainder is to be negated
negrem(a, b) == a < 0

NegateN_Complement(v) == ToU((Mod - 1) - v)

\* -v on uint64, as in rem.value = -rem.value
NegateN(v) == ToU(0 - v)

\* Z.DivideR after res, rem, e := av.DivideR(bv), d being that call.
\* rem.value = -rem.value and res.value = -res.value write through the
\* pointers N.DivideR returned: into ZERO when the pointer is &ZERO, into
\* the fresh object otherwise
Z_DivideRSigns(d, nres, nrem) ==
  LET res == d.n
      rem == d.rem
      zv1 == IF nrem /\ rem.ref = "ZERO" THEN NegateN(d.zero) ELSE d.zero
      remv == IF nrem THEN NegateN(rem.value) ELSE rem.value
      zv2 == IF nres /\ res.ref = "ZERO" THEN NegateN(zv1) ELSE zv1
      resv == IF nres THEN NegateN(res.value) ELSE res.value
  IN  IF d.out # "return" THEN d
      ELSE IF res.ref # "nil" /\ rem.ref # "nil"
      THEN Wrote(Result("return", NilN,
                        NewZObj(ToI(IF res.ref = "ZERO" THEN zv2 ELSE resv)),
                        NilQ,
                        NewZObj(ToI(IF rem.ref = "ZERO" THEN zv2 ELSE remv)),
                        NoError, zv2),
                 (IF nrem THEN {rem.ref} ELSE {})
                   \cup (IF nres THEN {res.ref} ELSE {}))
      ELSE Result("return", NilN, NilZ, NilQ, NilZ, d.err, d.zero)

\* Z.DivideR
Z_DivideR(zv, z, arg) ==
  LET a == IF z.value < 0 THEN Neg(z.value) ELSE z.value
      b == IF arg.value < 0 THEN Neg(arg.value) ELSE arg.value
      av == NewObj(ToU(a))
      bv == NewObj(ToU(b))
  IN  Only({Z_DivideRSigns(d, negres(z.value, arg.value),
                           negrem(z.value, arg.value)) :
              d \in {N_DivideR(zv, av, bv)}})

\* a Z result: the one pointer Z.Add, Z.Multiply and Z.Subtract return, and
\* the first of Z.Power's three
ZResult(zres, zv) == Result("return", NilN, zres, NilQ, NilN, NoError, zv)

Z_Add_SameOrder(zv, z, arg) ==
  IF z.value >= 0 /\ arg.value >= 0
  THEN LET a == NewObj(ToU(z.value))
           b == NewObj(ToU(arg.value))
           c == N_Add(a, b)
       IN  ZResult(NewZObj(ToI(c.value)), zv)
  ELSE IF z.value >= 0 /\ arg.value < 0
  THEN LET a == NewObj(ToU(z.value))
           b == NewObj(ToU(Neg(arg.value)))
       IN  ZResult(NewZObj(DefZ(zv, a, b).value), zv)
  ELSE IF z.value < 0 /\ arg.value >= 0
  THEN LET a == NewObj(ToU(Neg(z.value)))
           b == NewObj(ToU(arg.value))
       IN  ZResult(NewZObj(DefZ(zv, a, b).value), zv)
  ELSE LET a == NewObj(ToU(Neg(z.value)))
           b == NewObj(ToU(Neg(arg.value)))
           c == N_Add(a, b)
       IN  ZResult(NewZObj(Neg(ToI(c.value))), zv)

\* Z.Add
Z_Add(zv, z, arg) ==
  IF z.value >= 0 /\ arg.value >= 0
  THEN LET a == NewObj(ToU(z.value))
           b == NewObj(ToU(arg.value))
           c == N_Add(a, b)
       IN  ZResult(NewZObj(ToI(c.value)), zv)
  ELSE IF z.value >= 0 /\ arg.value < 0
  THEN LET a == NewObj(ToU(z.value))
           b == NewObj(ToU(Neg(arg.value)))
       IN  ZResult(NewZObj(DefZ(zv, a, b).value), zv)
  ELSE IF z.value < 0 /\ arg.value >= 0
  THEN LET a == NewObj(ToU(Neg(z.value)))
           b == NewObj(ToU(arg.value))
       IN  ZResult(NewZObj(DefZ(zv, b, a).value), zv)
  ELSE LET a == NewObj(ToU(Neg(z.value)))
           b == NewObj(ToU(Neg(arg.value)))
           c == N_Add(a, b)
       IN  ZResult(NewZObj(Neg(ToI(c.value))), zv)

Z_Multiply_OfMagnitudes(zv, z, arg) ==
  LET a == NewObj(ToU(IF z.value < 0 THEN Neg(z.value) ELSE z.value))
      b == NewObj(ToU(IF arg.value < 0 THEN Neg(arg.value) ELSE arg.value))
      c == N_Multiply(zv, a, b)
  IN  ZResult(NewZObj(ToI(c.value)), zv)

\* Z.Multiply
Z_Multiply(zv, z, arg) ==
  IF z.value >= 0 /\ arg.value >= 0
  THEN LET a == NewObj(ToU(z.value))
           b == NewObj(ToU(arg.value))
           c == N_Multiply(zv, a, b)
       IN  ZResult(NewZObj(ToI(c.value)), zv)
  ELSE IF z.value >= 0 /\ arg.value < 0
  THEN LET a == NewObj(ToU(z.value))
           b == NewObj(ToU(Neg(arg.value)))
           c == N_Multiply(zv, a, b)
       IN  ZResult(NewZObj(Neg(ToI(c.value))), zv)
  ELSE IF z.value < 0 /\ arg.value >= 0
  THEN LET a == NewObj(ToU(Neg(z.value)))
           b == NewObj(ToU(arg.value))
           c == N_Multiply(zv, a, b)
       IN  ZResult(NewZObj(Neg(ToI(c.value))), zv)
  ELSE LET a == NewObj(ToU(Neg(z.value)))
           b == NewObj(ToU(Neg(arg.value)))
           c == N_Multiply(zv, a, b)
       IN  ZResult(NewZObj(ToI(c.value)), zv)

\* z holds an int64; read in the loop condition for the reason IsN is
IsZ(z) == z.value \in (0 - Half) .. (Half - 1)

RECURSIVE Z_PowerLoop(_, _, _, _, _)
\* the for loop of Z.Power for a negative base
Z_PowerLoop(zv, res, i, z, arg) ==
  IF i < arg.value /\ IsZ(res)
  THEN Only({Z_PowerLoop(zv, m.z, i + 1, z, arg) :
               m \in {Z_Multiply(zv, res, z)}})
  ELSE res

Z_PowerInverse_Skipped(p) == p

\* return (&Z{value: 1}).Divide(res), p being the call that gave res
Z_PowerInverse(p) ==
  IF p.out # "return" THEN p ELSE Z_Divide(p.zero, NewZObj(1), p.z)

RECURSIVE Z_Power(_, _, _)
\* Z.Power; the exponent that is its own negation recurses until the stack
\* is exhausted
Z_Power(zv, z, arg) ==
  IF z.value >= 0 /\ arg.value >= 0
  THEN LET a == NewObj(ToU(z.value))
           b == NewObj(ToU(arg.value))
           c == N_Power(zv, a, b)
       IN  ZResult(NewZObj(ToI(c.value)), zv)
  ELSE IF arg.value >= 0
  THEN ZResult(Z_PowerLoop(zv, NewZObj(1), 0, z, arg), zv)
  ELSE IF Neg(arg.value) = arg.value THEN Failure("stackoverflow", zv)
  ELSE Only({Z_PowerInverse(p) :
               p \in {Z_Power(zv, z, NewZObj(Neg(arg.value)))}})

RECURSIVE Z_Subtract(_, _, _)

Z_Subtract_Added(zv, z, arg) == Z_Add(zv, z, arg)

\* Z.Subtract; two operands that are their own negations recurse until the
\* stack is exhausted
Z_Subtract(zv, z, arg) ==
  IF z.value >= 0 /\ arg.value >= 0
  THEN ZResult(DefZ(zv, NewObj(ToU(z.value)), NewObj(ToU(arg.value))), zv)
  ELSE IF z.value >= 0 /\ arg.value < 0
  THEN LET c == Z_Add(zv, z, NewZObj(Neg(arg.value))).z
       IN  ZResult(NewZObj(ToI(c.value)), zv)
  ELSE IF z.value < 0 /\ arg.value >= 0
  THEN LET c == Z_Add(zv, NewZObj(Neg(z.value)), arg).z
       IN  ZResult(NewZObj(Neg(ToI(c.value))), zv)
  ELSE IF Neg(z.value) = z.value /\ Neg(arg.value) = arg.value
  THEN Failure("stackoverflow", zv)
  ELSE LET c == Z_Subtract(zv, NewZObj(Neg(z.value)),
                           NewZObj(Neg(arg.value)))
       IN  IF c.out # "return" THEN c
           ELSE ZResult(NewZObj(Neg(ToI(c.z.value))), zv)

\* Z.Root: panic("implement me")
Z_Root(zv, z, arg) == Failure("panic", zv)
\* Z.Logarithm: panic("implement me")
Z_Logarithm(zv, z, arg) == Failure("panic", zv)

\* ---- Q ----

DoubleNegative_Either(az, bz) == az.value < 0 \/ bz.value < 0

\* az.value < 0 && bz.value < 0
DoubleNegative(az, bz) == az.value < 0 /\ bz.value < 0

\* the end of Q.GCD: both terms were divided by gcd (az and bz are what
\* the two calls of Z.Divide returned), now cancel a double minus
Q_GCDSign(zv, az, bz) ==
  IF az.out # "return" THEN Failure(az.out, zv)
  ELSE IF bz.out # "return" THEN Failure(bz.out, zv)
  ELSE IF az.z.ref = "nil" \/ bz.z.ref = "nil" THEN Failure("panic", zv)
  ELSE IF DoubleNegative(az.z, bz.z)
  THEN Wrote(Result("return", NilN, NilZ,
                    NewQObj(Neg(az.z.value), Neg(bz.z.value)), NilN, NoError,
                    zv),
             az.wrote \cup bz.wrote \cup {az.z.ref, bz.z.ref})
  ELSE Wrote(Result("return", NilN, NilZ,
                    NewQObj(az.z.value, bz.z.value), NilN, NoError, zv),
             az.wrote \cup bz.wrote)

\* the end of Q.GCD: divide both terms by gcd
Q_GCDReduce(zv, q, gcd) ==
  Only({Q_GCDSign(zv, az, bz) :
          az \in {Z_Divide(zv, NewZObj(q.a), NewZObj(gcd))},
          bz \in {Z_Divide(zv, NewZObj(q.b), NewZObj(gcd))}})

RECURSIVE Q_GCDLoop(_, _, _, _, _)

\* one round of the for loop of Q.GCD after q, r, e := DivideR, d being
\* that call
Q_GCDRound(q, r1, d, rounds) ==
  IF d.out # "return" THEN d
  ELSE IF d.z.ref # "nil" /\ d.rem.ref # "nil"
  THEN IF d.rem.value = 0
       THEN Wrote(Q_GCDReduce(d.zero, q, r1), d.wrote)
       ELSE Wrote(Q_GCDLoop(d.zero, q, r1, d.rem.value, rounds + 1), d.wrote)
  ELSE Wrote(Result("return", NilN, NilZ, NilQ, NilN, d.err, d.zero), d.wrote)

\* the for loop of Q.GCD (the assignment gcd = 1 under r1 == 0 is
\* overwritten or abandoned before gcd is read)
Q_GCDLoop(zv, q, r0, r1, rounds) ==
  IF rounds = Mod THEN Failure("hang", zv)
  ELSE Only({Q_GCDRound(q, r1, d, rounds) :
               d \in {Z_DivideR(zv, NewZObj(r0), NewZObj(r1))}})

Q_GCD_SignedDenominator(zv, q) ==
  LET r0 == IF q.a < 0 THEN Neg(q.a) ELSE q.a
  IN  Q_GCDLoop(zv, q, r0, q.b, 0)

\* Q.GCD
Q_GCD(zv, q) ==
  LET r0 == IF q.a < 0 THEN Neg(q.a) ELSE q.a
      r1 == IF q.b < 0 THEN Neg(q.b) ELSE q.b
  IN  Q_GCDLoop(zv, q, r0, r1, 0)

DigitChars == <<"0", "1", "2", "3", "4", "5", "6", "7", "8", "9">>
RECURSIVE Digits(_)
Digits(v) ==
  IF v < 10 THEN <<DigitChars[v + 1]>>
  ELSE Digits(v \div 10) \o <<DigitChars[(v % 10) + 1]>>
\* fmt.Sprintf("%d", v)
Sprintf(v) == IF v < 0 THEN <<"-">> \o Digits(0 - v) ELSE Digits(v)

\* Q.String after _q, _ := q.GCD(), g being that call: the error is
\* dropped and _q dereferenced
Q_StringFormat(g) ==
  IF g.out # "return" THEN g
  ELSE IF g.q.ref = "nil" THEN Failure("panic", g.zero)
  ELSE [Result("return", NilN, NilZ, NilQ, NilN, NoError, g.zero)
          EXCEPT !.str = Sprintf(g.q.a) \o <<"/">> \o Sprintf(g.q.b),
                 !.wrote = g.wrote]

\* Q.String
Q_String(zv, q) == Only({Q_StringFormat(g) : g \in {Q_GCD(zv, q)}})

\* ---- operands ----
NatOperands == 0 .. MaxN
IntOperands == (0 - MaxN) .. MaxN
Operand(r, v) == [ref |-> r, value |-> v]
\* a pointer an earlier call returned, handed to the next call as operand r:
\* the same object under the name the callee knows it by (&ZERO stays &ZERO)
AsOperand(p, r) == IF p.ref = "ZERO" THEN p ELSE [p EXCEPT !.ref = r]

Abs(v) == IF v < 0 THEN 0 - v ELSE v
RECURSIVE Pow(_, _)
Pow(a, b) == IF b = 0 THEN 1 ELSE a * Pow(a, b - 1)

\* base and exponent of N.Power whose power a uint64 holds
NatPowerOperands ==
  {p \in NatOperands \X NatOperands : Pow(p[1], p[2]) < Mod}
\* base and exponent of Z.Power whose power (of the absolute exponent) an
\* int64 holds
IntPowerOperands ==
  {p \in IntOperands \X IntOperands : Pow(Abs(p[1]), Abs(p[2])) < Half}
\* degree and argument of N.Root with every probe res^degree of the scan
\* inside a uint64
RootOperands == {p \in NatOperands \X NatOperands : p[1] < WordBits}
\* base and argument of N.Logarithm with every probe base^res of the scan
\* inside a uint64
LogarithmOperands == {p \in NatOperands \X NatOperands : p[1] * p[2] <= Mod}
\* factors of Z.Multiply whose product an int64 holds
IntMultiplyOperands ==
  {p \in IntOperands \X IntOperands : Abs(p[1]) * Abs(p[2]) < Half}

NoResult == Result("return", NilN, NilZ, NilQ, NilN, NoError, 0)

Init ==
  /\ ZERO = 0
  /\ op = "idle"
  /\ x = 0
  /\ y = 0
  /\ src = "caller"
  /\ ret = NoResult

\* a call of operation name on operands a, b that ends as r says
Call(name, a, b, from, r) ==
  /\ op' = name
  /\ src' = from
  /\ x' = a
  /\ y' = b
  /\ ret' = r
  /\ ZERO' = r.zero

NSubtract ==
  /\ op = "idle"
  /\ \E a \in NatOperands, b \in NatOperands :
       Call("N.Subtract", a, b, "caller",
            N_Subtract(ZERO, Operand("n", a), Operand("arg", b)))

NDivide ==
  /\ op = "idle"
  /\ \E a \in NatOperands, b \in NatOperands :
       Call("N.Divide", a, b, "caller",
            N_Divide(ZERO, Operand("n", a), Operand("arg", b)))

NDivideR ==
  /\ op = "idle"
  /\ \E a \in NatOperands, b \in NatOperands :
       Call("N.DivideR", a, b, "caller",
            N_DivideR(ZERO, Operand("n", a), Operand("arg", b)))

ZDivide ==
  /\ op = "idle"
  /\ \E a \in IntOperands, b \in IntOperands :
       Call("Z.Divide", a, b, "caller",
            Z_Divide(ZERO, Operand("n", a), Operand("arg", b)))

ZDivideR ==
  /\ op = "idle"
  /\ \E a \in IntOperands, b \in IntOperands :
       Call("Z.DivideR", a, b, "caller",
            Z_DivideR(ZERO, Operand("n", a), Operand("arg", b)))

NPower ==
  /\ op = "idle"
  /\ \E p \in NatPowerOperands :
       Call("N.Power", p[1], p[2], "caller",
            Result("return",
                   N_Power(ZERO, Operand("n", p[1]), Operand("arg", p[2])),
                   NilZ, NilQ, NilN, NoError, ZERO))

NRoot ==
  /\ op = "idle"
  /\ \E p \in RootOperands :
       Call("N.Root", p[1], p[2], "caller",
            N_Root(ZERO, Operand("n", p[1]), Operand("arg", p[2])))

NLogarithm ==
  /\ op = "idle"
  /\ \E p \in LogarithmOperands :
       Call("N.Logarithm", p[1], p[2], "caller",
            N_Logarithm(ZERO, Operand("n", p[1]), Operand("arg", p[2])))

\* k.Root(b.Power(k)): the root, of the degree that was the exponent, of
\* the power N.Power returned
NRootOfPower ==
  /\ op = "N.Power"
  /\ ret.out = "return"
  /\ Call("N.Root", y, ret.n.value, op,
          N_Root(ZERO, Operand("n", y), AsOperand(ret.n, "arg")))

\* b.Logarithm(b.Power(k)): the logarithm, to the base that was the base,
\* of the power N.Power returned
NLogarithmOfPower ==
  /\ op = "N.Power"
  /\ ret.out = "return"
  /\ Call("N.Logarithm", x, ret.n.value, op,
          N_Logarithm(ZERO, Operand("n", x), AsOperand(ret.n, "arg")))

ZAdd ==
  /\ op = "idle"
  /\ \E a \in IntOperands, b \in IntOperands :
       Call("Z.Add", a, b, "caller",
            Z_Add(ZERO, Operand("n", a), Operand("arg", b)))

ZSubtract ==
  /\ op = "idle"
  /\ \E a \in IntOperands, b \in IntOperands :
       Call("Z.Subtract", a, b, "caller",
            Z_Subtract(ZERO, Operand("n", a), Operand("arg", b)))

ZMultiply ==
  /\ op = "idle"
  /\ \E p \in IntMultiplyOperands :
       Call("Z.Multiply", p[1], p[2], "caller",
            Z_Multiply(ZERO, Operand("n", p[1]), Operand("arg", p[2])))

ZPower ==
  /\ op = "idle"
  /\ \E p \in IntPowerOperands :
       Call("Z.Power", p[1], p[2], "caller",
            Z_Power(ZERO, Operand("n", p[1]), Operand("arg", p[2])))

ZRoot ==
  /\ op = "idle"
  /\ \E a \in IntOperands, b \in IntOperands :
       Call("Z.Root", a, b, "caller",
            Z_Root(ZERO, Operand("n", a), Operand("arg", b)))

ZLogarithm ==
  /\ op = "idle"
  /\ \E a \in IntOperands, b \in IntOperands :
       Call("Z.Logarithm", a, b, "caller",
            Z_Logarithm(ZERO, Operand("n", a), Operand("arg", b)))

\* q.GCD() on a Q the caller built
QGCD ==
  /\ op = "idle"
  /\ \E a \in IntOperands, b \in IntOperands :
       Call("Q.GCD", a, b, "caller", Q_GCD(ZERO, [ref |-> "n", a |-> a, b |-> b]))

\* q.GCD() on the Q a promoting division or an earlier GCD returned
QGCDOfResult ==
  /\ op \in {"N.Divide", "Z.Divide", "Q.GCD"}
  /\ ret.out = "return"
  /\ ret.q.ref # "nil"
  /\ Call("Q.GCD", ret.q.a, ret.q.b, op,
          Q_GCD(ZERO, [ret.q EXCEPT !.ref = "n"]))

QString ==
  /\ op = "idle"
  /\ \E a \in IntOperands, b \in IntOperands :
       Call("Q.String", a, b, "caller", Q_String(ZERO, [ref |-> "n", a |-> a, b |-> b]))

\* the caller is done with the result (the tests print it and go on);
\* a call that hung, overflowed the stack or panicked never gets here
Done ==
  /\ op # "idle"
  /\ ret.out = "return"
  /\ op' = "idle"
  /\ x' = 0
  /\ y' = 0
  /\ src' = "caller"
  /\ ret' = NoResult
  /\ UNCHANGED ZERO

Next ==
  \/ NSubtract
  \/ NDivide
  \/ NDivideR
  \/ ZDivide
  \/ ZDivideR
  \/ NPower
  \/ NRoot
  \/ NLogarithm
  \/ NRootOfPower
  \/ NLogarithmOfPower
  \/ ZAdd
  \/ ZSubtract
  \/ ZMultiply
  \/ ZPower
  \/ ZRoot
  \/ ZLogarithm
  \/ QGCD
  \/ QGCDOfResult
  \/ QString
  \/ Done

Spec == Init /\ [][Next]_vars

\* ---- the searches of N on operands next to the largest uint64 ----
WideOperands == (Mod - MaxWide) .. (Mod - 1)
ProbeOperands == 1 .. MaxProbe
\* the targets of N.Root, whose probes are powers: the MaxProbe largest
WideRootOperands == (Mod - MaxProbe) .. (Mod - 1)

WideNSubtract ==
  /\ op = "idle"
  /\ \E a \in WideOperands, b \in {0} \cup ProbeOperands :
       Call("N.Subtract", a, b, "caller",
            N_Subtract(ZERO, Operand("n", a), Operand("arg", b)))

WideNDivide ==
  /\ op = "idle"
  /\ \E a \in WideOperands, b \in ProbeOperands :
       Call("N.Divide", a, b, "caller",
            N_Divide(ZERO, Operand("n", a), Operand("arg", b)))

WideNDivideR ==
  /\ op = "idle"
  /\ \E a \in WideOperands, b \in ProbeOperands :
       Call("N.DivideR", a, b, "caller",
            N_DivideR(ZERO, Operand("n", a), Operand("arg", b)))

WideNRoot ==
  /\ op = "idle"
  /\ \E degree \in ProbeOperands, a \in WideRootOperands :
       Call("N.Root", degree, a, "caller",
            N_Root(ZERO, Operand("n", degree), Operand("arg", a)))

WideNLogarithm ==
  /\ op = "idle"
  /\ \E base \in ProbeOperands \ {1}, a \in WideOperands :
       Call("N.Logarithm", base, a, "caller",
            N_Logarithm(ZERO, Operand("n", base), Operand("arg", a)))

NextWide ==
  \/ WideNSubtract
  \/ WideNDivide
  \/ WideNDivideR
  \/ WideNRoot
  \/ WideNLogarithm
  \/ Done

SpecWide == Init /\ [][NextWide]_vars

\* ---- the self-calls of Z on operands down to the most negative int64 ----
MinOperands == {0 - Half} \cup ((0 - MaxMin) .. MaxMin)

MinZDivide ==
  /\ op = "idle"
  /\ \E a \in MinOperands, b \in MinOperands :
       Call("Z.Divide", a, b, "caller",
            Z_Divide(ZERO, Operand("n", a), Operand("arg", b)))

MinZSubtract ==
  /\ op = "idle"
  /\ \E a \in MinOperands, b \in MinOperands :
       Call("Z.Subtract", a, b, "caller",
            Z_Subtract(ZERO, Operand("n", a), Operand("arg", b)))

MinZPower ==
  /\ op = "idle"
  /\ \E a \in MinOperands, b \in MinOperands :
       Call("Z.Power", a, b, "caller",
            Z_Power(ZERO, Operand("n", a), Operand("arg", b)))

NextMin ==
  \/ MinZDivide
  \/ MinZSubtract
  \/ MinZPower
  \/ Done

SpecMin == Init /\ [][NextMin]_vars

\* ---- properties ----

\* d divides v
Divides(d, v) == \E k \in (0 - Abs(v)) .. Abs(v) : k * d = v
\* the greatest common divisor of two magnitudes, not both 0
GcdOf(m, n) ==
  CHOOSE g \in 1 .. (m + n) :
    /\ m % g = 0
    /\ n % g = 0
    /\ \A h \in 1 .. (m + n) : (m % h = 0 /\ n % h = 0) => h <= g
\* Go's a / b on int64: the quotient rounded toward zero
GoQuo(a, b) ==
  IF (a < 0) = (b < 0) THEN Abs(a) \div Abs(b) ELSE 0 - (Abs(a) \div Abs(b))
\* Go's a % b
GoRem(a, b) == a - b * GoQuo(a, b)

IsNil(p) == p.ref = "nil"
Returned == ret.out = "return"

\* C1: N.Subtract returns exactly one non-nil result; for a >= b the natural
\* x with b + x = a and no Z, for a < b no natural and the negative Z value
\* a - b
C1_SubtractPromotion ==
  op = "N.Subtract" =>
    /\ Returned
    /\ x >= y => /\ ~IsNil(ret.n)
                 /\ IsNil(ret.z)
                 /\ y + ret.n.value = x
    /\ x < y => /\ IsNil(ret.n)
                /\ ~IsNil(ret.z)
                /\ ret.z.value = x - y
                /\ ret.z.value < 0
                /\ y + ret.z.value = x

C1_Witness ==
  /\ op = "N.Subtract"
  /\ x < y
  /\ ~IsNil(ret.z)
  /\ ret.z.value = x - y

\* the exact value a division returned: an N from N.Divide, a Z from Z.Divide
Exact == IF op = "N.Divide" THEN ret.n ELSE ret.z

\* C2: for b # 0, N.Divide and Z.Divide return without error exactly one
\* of: the exact quotient q with b * q = a, iff b divides a; a Q denoting
\* a / b, iff b does not divide a
C2_DivideExactOrPromoted ==
  (op \in {"N.Divide", "Z.Divide"} /\ y # 0) =>
    /\ Returned
    /\ ret.err = NoError
    /\ IsNil(ret.rem)
    /\ IsNil(IF op = "N.Divide" THEN ret.z ELSE ret.n)
    /\ IsNil(Exact) # IsNil(ret.q)
    /\ ~IsNil(Exact) <=> Divides(y, x)
    /\ ~IsNil(Exact) => y * Exact.value = x
    /\ ~IsNil(ret.q) => /\ ret.q.b # 0
                        /\ ret.q.a * y = x * ret.q.b

C2_Witness ==
  /\ op = "Z.Divide"
  /\ x < 0
  /\ y > 0
  /\ ~Divides(y, x)
  /\ ~IsNil(ret.q)
  /\ IsNil(ret.z)

\* C3 as the spec has it: the Q a division promotes to holds a pair in
\* lowest terms
C3_PromotedInLowestTerms ==
  (op \in {"N.Divide", "Z.Divide"} /\ Returned /\ ~IsNil(ret.q)) =>
    GcdOf(Abs(ret.q.a), Abs(ret.q.b)) = 1

\* C3 amended: the Q a division promotes to holds the operands as they were
\* divided, |b| below and |a| above with the sign of a / b; the pair Q.GCD
\* returns for that Q is in lowest terms and denotes the same rational
C3_PromotedReducedByGCD ==
  /\ (op \in {"N.Divide", "Z.Divide"} /\ Returned /\ ~IsNil(ret.q)) =>
       /\ ret.q.b = Abs(y)
       /\ ret.q.a = (IF (x < 0) = (y < 0) THEN Abs(x) ELSE 0 - Abs(x))
  /\ (op = "Q.GCD" /\ src \in {"N.Divide", "Z.Divide"}) =>
       /\ Returned
       /\ ~IsNil(ret.q)
       /\ GcdOf(Abs(ret.q.a), Abs(ret.q.b)) = 1
       /\ ret.q.a * y = x * ret.q.b

C3_Witness ==
  /\ op = "Q.GCD"
  /\ src = "Z.Divide"
  /\ GcdOf(Abs(x), Abs(y)) > 1
  /\ ~IsNil(ret.q)
  /\ ret.q.a # x

\* C4: division by zero is a returned error: N.Divide, N.DivideR, Z.Divide
\* and Z.DivideR on a zero divisor return a non-nil error and no value
C4_DivideByZeroIsError ==
  (op \in {"N.Divide", "N.DivideR", "Z.Divide", "Z.DivideR"} /\ y = 0) =>
    /\ Returned
    /\ ret.err # NoError
    /\ IsNil(ret.n)
    /\ IsNil(ret.z)
    /\ IsNil(ret.q)
    /\ IsNil(ret.rem)

C4_Witness ==
  /\ op = "Z.Divide"
  /\ x < 0
  /\ y = 0
  /\ Returned
  /\ ret.err = "can't divide by ZERO"

\* the quotient a division with remainder returned
Quotient == IF op = "N.DivideR" THEN ret.n ELSE ret.z

\* C5: for b # 0 the pair (q, r) of N.DivideR and of Z.DivideR satisfies
\* a = q * b + r and |r| < |b|, with 0 <= r for N
C5_RemainderLaw ==
  (op \in {"N.DivideR", "Z.DivideR"} /\ y # 0) =>
    /\ Returned
    /\ ret.err = NoError
    /\ ~IsNil(Quotient)
    /\ ~IsNil(ret.rem)
    /\ x = Quotient.value * y + ret.rem.value
    /\ Abs(ret.rem.value) < Abs(y)
    /\ op = "N.DivideR" => (Quotient.value >= 0 /\ ret.rem.value >= 0)

C5_Witness ==
  /\ op = "N.DivideR"
  /\ y # 0
  /\ ~IsNil(ret.rem)
  /\ ret.rem.value > 0
  /\ ret.n.value > 0

\* C6: Z.DivideR on b # 0 is truncated division: the remainder is zero or
\* has the sign of a, the quotient is zero or negative exactly when the
\* signs of a and b differ; both equal Go's a / b and a % b
C6_TruncatedDivision ==
  (op = "Z.DivideR" /\ y # 0) =>
    /\ Returned
    /\ ~IsNil(ret.z)
    /\ ~IsNil(ret.rem)
    /\ ret.rem.value = 0 \/ ((ret.rem.value < 0) = (x < 0))
    /\ ret.z.value = 0 \/ ((ret.z.value < 0) = ((x < 0) # (y < 0)))
    /\ ret.z.value = GoQuo(x, y)
    /\ ret.rem.value = GoRem(x, y)

C6_Witness ==
  /\ op = "Z.DivideR"
  /\ x < 0
  /\ y < 0
  /\ ret.rem.value < 0
  /\ ret.z.value > 0

\* C7: as the comment on Z.DivideR has it, for B # 0 the quotient Q and
\* the remainder R satisfy A = Q * B + R and 0 <= R < |B|
C7_RemainderNeverNegative ==
  (op = "Z.DivideR" /\ y # 0) =>
    /\ Returned
    /\ ~IsNil(ret.z)
    /\ ~IsNil(ret.rem)
    /\ x = ret.z.value * y + ret.rem.value
    /\ 0 <= ret.rem.value
    /\ ret.rem.value < Abs(y)

\* C8: on a Q with denominator # 0, Q.GCD returns (a / g, b / g) for
\* g = gcd(|a|, |b|), both negated when both are negative; the result
\* denotes the same rational and its terms have gcd 1
C8_GCDReduces ==
  (op = "Q.GCD" /\ y # 0) =>
    /\ Returned
    /\ ret.err = NoError
    /\ ~IsNil(ret.q)
    /\ LET g == GcdOf(Abs(x), Abs(y))
       IN  IF x < 0 /\ y < 0
           THEN ret.q.a = Abs(x) \div g /\ ret.q.b = Abs(y) \div g
           ELSE ret.q.a * g = x /\ ret.q.b * g = y
    /\ ret.q.a * y = x * ret.q.b
    /\ GcdOf(Abs(ret.q.a), Abs(ret.q.b)) = 1

C8_Witness ==
  /\ op = "Q.GCD"
  /\ src = "caller"
  /\ x < 0
  /\ y < 0
  /\ GcdOf(Abs(x), Abs(y)) > 1
  /\ ~IsNil(ret.q)
  /\ ret.q.a > 0

\* C9: reduction is idempotent: Q.GCD of what Q.GCD returned returns the
\* same numerator and denominator
C9_GCDIdempotent ==
  (op = "Q.GCD" /\ src = "Q.GCD") =>
    /\ Returned
    /\ ~IsNil(ret.q)
    /\ ret.q.a = x
    /\ ret.q.b = y

C9_Witness ==
  /\ op = "Q.GCD"
  /\ src = "Q.GCD"
  /\ x < 0
  /\ y > 1
  /\ ~IsNil(ret.q)
  /\ ret.q.a = x

\* the Q values with a non-zero denominator that denote the rational x / y
SameRational ==
  {q \in [ref : {"n"}, a : IntOperands, b : IntOperands \ {0}] :
     q.a * y = x * q.b}

\* C10: canonical form is unique: two Q values with non-zero denominators
\* that denote the same rational are reduced by Q.GCD to the same pair and
\* are displayed by Q.String as the same text
C10_CanonicalFormUnique ==
  /\ (op = "Q.GCD" /\ y # 0 /\ Returned) =>
       \A q \in SameRational :
         /\ Q_GCD(ZERO, q).q.a = ret.q.a
         /\ Q_GCD(ZERO, q).q.b = ret.q.b
  /\ (op = "Q.String" /\ y # 0 /\ Returned) =>
       \A q \in SameRational : Q_String(ZERO, q).str = ret.str

\* C11: N.Root(degree, x) answers an error for degree 0 whatever x is; for
\* degree >= 1 it answers the natural b with b^degree = x when there is one
\* (0 for x = 0), and otherwise the 'no solution' error with a nil value;
\* it never answers a Z or a Q.  x holds the degree, y the argument
C11_RootExactOrNoSolution ==
  (op = "N.Root") =>
    /\ Returned
    /\ IsNil(ret.z)
    /\ IsNil(ret.q)
    /\ IF x = 0
       THEN IsNil(ret.n) /\ ret.err = "can't take ZEROth root"
       ELSE IF \E b \in 0 .. y : Pow(b, x) = y
       THEN /\ ~IsNil(ret.n)
            /\ ret.err = NoError
            /\ Pow(ret.n.value, x) = y
       ELSE IsNil(ret.n) /\ ret.err = NoSolution

C11_Witness ==
  /\ op = "N.Root"
  /\ src = "caller"
  /\ x = 2
  /\ y = 4
  /\ ~IsNil(ret.n)
  /\ ret.n.value = 2

\* C12: N.Logarithm(base, x) answers the undefined-for-zero error for x = 0
\* whatever the base is; otherwise the invalid-base error for base 0 and
\* base 1 (also for x = 1); otherwise the natural e with base^e = x when
\* there is one (0 for x = 1) and the 'no solution' error when there is
\* none.  x holds the base, y the argument
C12_LogarithmErrorClasses ==
  (op = "N.Logarithm") =>
    /\ Returned
    /\ IsNil(ret.z)
    /\ IsNil(ret.q)
    /\ IF y = 0
       THEN IsNil(ret.n) /\ ret.err = "can't take logarithm from ZERO"
       ELSE IF x = 0
       THEN IsNil(ret.n) /\ ret.err = "can't take logarithm with base ZERO"
       ELSE IF x = 1
       THEN IsNil(ret.n) /\ ret.err = "can't take logarithm with base ONE"
       ELSE IF \E e \in 0 .. y : Pow(x, e) = y
       THEN /\ ~IsNil(ret.n)
            /\ ret.err = NoError
            /\ Pow(x, ret.n.value) = y
            /\ (y = 1 => ret.n.value = 0)
       ELSE IsNil(ret.n) /\ ret.err = NoSolution

C12_Witness ==
  /\ op = "N.Logarithm"
  /\ x = 0
  /\ y = 0
  /\ IsNil(ret.n)
  /\ ret.err = "can't take logarithm from ZERO"

\* C13: Root and Logarithm invert Power: the root of degree k >= 1 of the
\* power Power(b, k) is b itself, and the logarithm to a base b >= 2 of the
\* power Power(b, k), k >= 0, is k itself; neither fails.  In the step from
\* N.Power to the call on its result x holds b and y holds k
C13_RootAndLogarithmInvertPower ==
  [][/\ (op = "N.Power" /\ op' = "N.Root" /\ y >= 1) =>
          /\ ret'.out = "return"
          /\ ret'.err = NoError
          /\ ret'.n.ref # "nil"
          /\ ret'.n.value = x
     /\ (op = "N.Power" /\ op' = "N.Logarithm" /\ x >= 2) =>
          /\ ret'.out = "return"
          /\ ret'.err = NoError
          /\ ret'.n.ref # "nil"
          /\ ret'.n.value = y]_vars

C13_Witness ==
  /\ op = "N.Root"
  /\ src = "N.Power"
  /\ x = 2
  /\ y = 9
  /\ ~IsNil(ret.n)
  /\ ret.n.value = 3

\* C14: Z.Power(a, b) with b < 0 is 1 / a^|b|: the Z value a^|b| itself
\* when that is 1 or -1, the Q value with numerator 1 or -1 (the sign of
\* a^|b|) and denominator |a^|b|| when |a| >= 2, and the division-by-zero
\* error with no value when a = 0
C14_NegativeExponentIsReciprocal ==
  (op = "Z.Power" /\ y < 0) =>
    /\ Returned
    /\ IF Pow(x, 0 - y) = 0
       THEN /\ IsNil(ret.z)
            /\ IsNil(ret.q)
            /\ ret.err = "can't divide by ZERO"
       ELSE IF Abs(Pow(x, 0 - y)) = 1
       THEN /\ ~IsNil(ret.z)
            /\ IsNil(ret.q)
            /\ ret.err = NoError
            /\ ret.z.value = Pow(x, 0 - y)
       ELSE /\ IsNil(ret.z)
            /\ ~IsNil(ret.q)
            /\ ret.err = NoError
            /\ ret.q.b = Abs(Pow(x, 0 - y))
            /\ ret.q.a * Pow(x, 0 - y) = ret.q.b

C14_Witness ==
  /\ op = "Z.Power"
  /\ x = 0 - 2
  /\ y = 0 - 3
  /\ ~IsNil(ret.q)
  /\ ret.q.a = 0 - 1
  /\ ret.q.b = 8

\* C15: for an exponent b >= 0 N.Power(a, b) and Z.Power(a, b) answer a^b:
\* 1 for b = 0 whatever the base is (0^0 = 1), 0 for a = 0 and b >= 1, and
\* for a negative base a negative number exactly when b is odd
C15_PowerIsRepeatedMultiplication ==
  /\ (op = "N.Power") =>
       /\ Returned
       /\ ~IsNil(ret.n)
       /\ ret.n.value = Pow(x, y)
       /\ (y = 0 => ret.n.value = 1)
       /\ (x = 0 /\ y >= 1 => ret.n.value = 0)
  /\ (op = "Z.Power" /\ y >= 0) =>
       /\ Returned
       /\ ~IsNil(ret.z)
       /\ IsNil(ret.q)
       /\ ret.err = NoError
       /\ ret.z.value = Pow(x, y)
       /\ (y = 0 => ret.z.value = 1)
       /\ (x = 0 /\ y >= 1 => ret.z.value = 0)
       /\ (x < 0 => (ret.z.value < 0 <=> y % 2 = 1))

C15_Witness ==
  /\ op = "Z.Power"
  /\ x = 0 - 2
  /\ y = 3
  /\ ~IsNil(ret.z)
  /\ ret.z.value = 0 - 8

\* C16: Z.Root and Z.Logarithm come back to the caller with an error result
\* ('Unimplemented') whatever the operands are; they never end in a panic
C16_UnimplementedIsError ==
  (op \in {"Z.Root", "Z.Logarithm"}) =>
    /\ Returned
    /\ ret.err # NoError

\* C17: every search of N terminates, also on operands next to the largest
\* uint64: Subtract, Divide and DivideR by b # 0, Root of a degree >= 1 and
\* Logarithm to a base >= 2 of x >= 1 leave their scan loop
C17_SearchTerminates ==
  (\/ op = "N.Subtract"
   \/ op \in {"N.Divide", "N.DivideR"} /\ y # 0
   \/ op = "N.Root" /\ x >= 1
   \/ op = "N.Logarithm" /\ x >= 2 /\ y >= 1) =>
    ret.out # "hang"

\* C18: no operation assigns to an object it was handed: the operands are
\* never written, and ZERO, which Z.DivideR does negate in place when
\* N.DivideR returned &ZERO as quotient or remainder, is 0 in every state
C18_OperandsAndZeroUnchanged ==
  /\ ZERO = 0
  /\ ret.zero = 0
  /\ ret.wrote \cap {"n", "arg"} = {}

C18_Witness ==
  /\ op = "Z.DivideR"
  /\ x < 0
  /\ y > 0
  /\ Returned
  /\ "ZERO" \in ret.wrote
  /\ ret.rem.value = 0
  /\ ZERO = 0

\* C19: Z.Subtract is total and exact: for a and b of either sign it
\* answers a Z value d, never nil and never an error, with d + b = a
C19_SubtractIsExact ==
  (op = "Z.Subtract") =>
    /\ Returned
    /\ ~IsNil(ret.z)
    /\ IsNil(ret.q)
    /\ ret.err = NoError
    /\ ret.z.value = x - y
    /\ Z_Add(ZERO, AsOperand(ret.z, "n"), Operand("arg", y)).z.value = x

C19_Witness ==
  /\ op = "Z.Subtract"
  /\ x = 0 - 3
  /\ y = 0 - 5
  /\ ~IsNil(ret.z)
  /\ ret.z.value = 2

\* C20: Z.Add(a, b) answers the signed sum a + b in each of the four sign
\* cases; so it is commutative and has 0 as identity
C20_AddIsSignedSum ==
  (op = "Z.Add") =>
    /\ Returned
    /\ ~IsNil(ret.z)
    /\ ret.err = NoError
    /\ ret.z.value = x + y
    /\ Z_Add(ZERO, Operand("n", y), Operand("arg", x)).z.value = ret.z.value
    /\ (y = 0 => ret.z.value = x)
    /\ (x = 0 => ret.z.value = y)

C20_Witness ==
  /\ op = "Z.Add"
  /\ x = 0 - 3
  /\ y = 5
  /\ ~IsNil(ret.z)
  /\ ret.z.value = 2

\* C21: Z.Multiply(a, b) answers |a| * |b| with the sign of the rule of
\* signs: positive for operands of the same sign, negative for operands of
\* different signs, and 0 when either operand is 0
C21_MultiplySignRule ==
  (op = "Z.Multiply") =>
    /\ Returned
    /\ ~IsNil(ret.z)
    /\ ret.err = NoError
    /\ Abs(ret.z.value) = Abs(x) * Abs(y)
    /\ ((x > 0 /\ y > 0) \/ (x < 0 /\ y < 0) => ret.z.value > 0)
    /\ ((x > 0 /\ y < 0) \/ (x < 0 /\ y > 0) => ret.z.value < 0)
    /\ (x = 0 \/ y = 0 => ret.z.value = 0)

C21_Witness ==
  /\ op = "Z.Multiply"
  /\ x = 0 - 3
  /\ y = 0 - 2
  /\ ~IsNil(ret.z)
  /\ ret.z.value = 6

\* C22: Z.Divide by b # 0 restores the sign after dividing the absolute
\* values: an exact result is the signed quotient a / b (0 for a = 0), and
\* a promoted Q has the denominator |b| > 0 and the numerator |a| for
\* operands of the same sign, -|a| for operands of different signs
C22_DivideRestoresSign ==
  (op = "Z.Divide" /\ y # 0) =>
    /\ Returned
    /\ ~IsNil(ret.z) =>
         /\ ret.z.value * y = x
         /\ (x = 0 => ret.z.value = 0)
    /\ ~IsNil(ret.q) =>
         /\ ret.q.b = Abs(y)
         /\ ret.q.b > 0
         /\ ret.q.a = IF (x < 0) = (y < 0) THEN Abs(x) ELSE 0 - Abs(x)

C22_Witness ==
  /\ op = "Z.Divide"
  /\ x = 4
  /\ y = 0 - 6
  /\ ~IsNil(ret.q)
  /\ ret.q.a = 0 - 4
  /\ ret.q.b = 6

\* C23: the reduction of a Q with denominator 0 is guarded by gcd(x, 0) = 1:
\* Q.GCD completes with a Q and no error, so that Q.String of such a value
\* comes back with a text
C23_ZeroDenominatorGuarded ==
  /\ (op = "Q.GCD" /\ y = 0) =>
       /\ Returned
       /\ ~IsNil(ret.q)
       /\ ret.err = NoError
  /\ (op = "Q.String" /\ y = 0) => Returned

\* C24: the sign-normalising self-calls of Z.Divide, Z.Subtract and Z.Power
\* reach a non-recursive case for every pair of int64 operands, the most
\* negative one included
C24_SelfCallsBottomOut ==
  (op \in {"Z.Divide", "Z.Subtract", "Z.Power"}) => ret.out # "stackoverflow"
====
